---- MODULE Spec2Model ----
(***************************************************************************)
(* Session lifecycle and request routing of the docs-fetcher MCP server   *)
(* (src/src/server.ts): the sessions map, the POST / GET / DELETE         *)
(* handlers of /mcp and the eviction timer each new session schedules.    *)
(*                                                                         *)
(* Node runs the handlers on one thread: a handler runs without           *)
(* interruption up to its next await, so every action below is one        *)
(* synchronous stretch of a handler or of a timer callback.               *)
(***************************************************************************)
EXTENDS Integers, Sequences, FiniteSets, Bags, TLC

\* ---------------------------------------------------------------- bounds
\* Number of requests the clients send in one behaviour.
MaxRequests == 3
\* Last tick of the clock (one tick is fifteen minutes).
MaxClock == 3
\* Last tick of the clock of a fetch (one tick is five seconds).
MaxNow == 4
\* Largest count or limit a tool is called with (the smallest is -MaxArg).
MaxArg == 22
\* Number of requests in a behaviour of the liveness specification.
MaxLiveRequests == 2

\* ------------------------------------------------------------- constants
\* 30 * 60 * 1000 ms, in ticks of fifteen minutes.
IdleTimeout == 2

\* JavaScript undefined: an absent mcp-session-id header, and the sessionId
\* of a transport that has not minted one.
Undefined == 0
\* A header value that randomUUID() never returned ("nonexistent-session").
NonexistentSession == -1

githubTools ==
    << "fetch_github_readme", "fetch_github_file", "get_repo_info",
       "list_repo_contents", "get_github_releases" >>

\* Mutant of npmTools: an npm tool is given the name of a GitHub tool.
npmToolsClash == << "get_npm_package", "search_npm_packages", "get_repo_info" >>

npmTools == << "get_npm_package", "search_npm_packages", "get_package_versions" >>

docsTools == << "fetch_url_content", "search_mdn" >>

allTools == githubTools \o npmTools \o docsTools

VARIABLES
    sessions,     \* the sessions Map: token -> [server, transport]
    servers,      \* every McpServer created, by index
    transports,   \* every StreamableHTTPServerTransport created, by index
    timers,       \* pending setTimeout callbacks
    fired,        \* eviction callbacks that have run, with what they found
    clock,        \* ticks since start
    issued,       \* how many identifiers randomUUID() has returned
    lastActive,   \* live token -> tick of the last request that resolved it
    received,     \* how many requests have arrived
    reqs,         \* the requests whose handler is suspended at an await (a bag)
    last,         \* the request received most recently
    fx,           \* the call of fetchJson or fetchText in progress
    tool          \* the call of a tool handler or response builder in progress

vars == << sessions, servers, transports, timers, fired, clock, issued,
           lastActive, received, reqs, last, fx, tool >>

\* The state of server.ts, which utils/fetcher.ts never touches.
serverVars == << sessions, servers, transports, timers, fired, clock, issued,
                lastActive, received, reqs, last >>

\* ------------------------------------------------------------ Map helpers
MapSet(m, k, v) == [x \in (DOMAIN m) \cup {k} |-> IF x = k THEN v ELSE m[x]]

MapDelete(m, k) == [x \in (DOMAIN m) \ {k} |-> m[x]]

\* A JavaScript string | undefined used as a condition.
Truthy(sessionId) == sessionId # Undefined

\* sessions.has(sessionId)
SessionsHas(sessionId) == sessionId \in DOMAIN sessions

\* Mutant of PostLookup: a token that resolves yields some stored session,
\* not the one stored under it.
PostLookupAny(sessionId) ==
    IF Truthy(sessionId) /\ SessionsHas(sessionId)
    THEN {sessions[k] : k \in DOMAIN sessions} ELSE {}

\* Line 59: sessionId ? sessions.get(sessionId) : null, as the set of what
\* it yields (empty for null and for undefined).
PostLookup(sessionId) ==
    IF Truthy(sessionId) /\ SessionsHas(sessionId) THEN {sessions[sessionId]} ELSE {}

\* Lines 103 and 116: sessionId && sessions.has(sessionId)
Resolves(sessionId) == Truthy(sessionId) /\ SessionsHas(sessionId)

\* The header values a client can send: none, a made-up one, or an
\* identifier some response carried (live or stale). randomUUID() never
\* returns a value a client sent before it.
Headers == {Undefined, NonexistentSession} \cup (1..issued)

\* ------------------------------------------------------------ collaborators
\* Line 17: new McpServer(...), with no tool and no transport yet.
NewMcpServer == [registeredTools |-> << >>, transport |-> 0]

\* Lines 24-31: server.registerTool(tool.name, ...)
RegisterTool(server, name) ==
    [server EXCEPT !.registeredTools = Append(@, name)]

\* Lines 23-32: for (const tool of allTools), from the i-th tool on.
RECURSIVE RegisterFrom(_, _)
RegisterFrom(server, i) ==
    IF i > Len(allTools) THEN server
    ELSE RegisterFrom(RegisterTool(server, allTools[i]), i + 1)

\* Mutant of createMcpServer: only the GitHub tools are registered.
createMcpServerGithubOnly ==
    [registeredTools |-> githubTools, transport |-> 0]

\* Lines 16-35.
createMcpServer == RegisterFrom(NewMcpServer, 1)

\* Mutant of randomUUID: the generator of the test suite's mock transport,
\* whose sessionId is the same for every transport.
randomUUIDMock == (issued + 1) - issued

\* Mutant of randomUUID: the generator returns its previous value again.
randomUUIDRepeated == IF issued = 0 THEN issued + 1 ELSE issued

\* Line 70: randomUUID(), a value never returned before.
randomUUID == issued + 1

NewTransport == [sessionId |-> Undefined, closed |-> 0]

\* transport.close(): counted, so that a second call shows.
Close(ts, t) == [ts EXCEPT ![t].closed = @ + 1]

\* A request in flight: what its handler holds while it is suspended
\* (sessionId, line 56; server and transport, lines 68-69 or 59).
Request(verb, sessionId, pc, server, transport) ==
    [verb |-> verb, sessionId |-> sessionId, pc |-> pc, server |-> server,
     transport |-> transport]

\* A request as received: whether its handler found a session for the
\* header, and the response the router wrote itself in the stretch that
\* received it (status 0: none, a transport is to answer).
Received(verb, header, found, status, body) ==
    [verb |-> verb, header |-> header, found |-> found, status |-> status,
     body |-> body]

Suspend(rq) == reqs (+) SetToBag({rq})

Resume(rq, next) == (reqs (-) SetToBag({rq})) (+) SetToBag({next})

Finish(rq) == reqs (-) SetToBag({rq})

InFlight == BagToSet(reqs)

\* Mutant of SessionsSet: the new session is not stored.
SessionsSetDropped(newSessionId, server, transport) == sessions

\* Line 83: sessions.set(newSessionId, { server, transport })
SessionsSet(newSessionId, server, transport) ==
    MapSet(sessions, newSessionId, [server |-> server, transport |-> transport])

\* Mutant of SessionsDelete: the entry stays in the map.
SessionsDeleteKept(sessionId) == sessions

\* Mutant of SessionsDelete: the whole map is emptied.
SessionsDeleteAll(sessionId) == << >>

\* Lines 91 and 119: sessions.delete(sessionId)
SessionsDelete(sessionId) == MapDelete(sessions, sessionId)

\* Mutant of Minted: the session is stored without the check.
MintedUnchecked(newSessionId) == TRUE

\* Line 82: if (newSessionId)
Minted(newSessionId) == newSessionId # Undefined

\* Mutant of EvictionDelay: the callback is scheduled one tick late.
EvictionDelayLate == IdleTimeout + 1

\* The delay handed to setTimeout, line 94.
EvictionDelay == IdleTimeout

\* Lines 86-95: setTimeout(callback, delay); the callback's closure holds
\* newSessionId (and the transport, which it does not use).
SetTimeout(newSessionId, transport) ==
    timers \cup {[token |-> newSessionId, transport |-> transport,
                  due |-> clock + EvictionDelay]}

\* Mutant of InvalidSession: the answer the SDK gives for an unknown session.
InvalidSessionNotFound(h) == Received("GET", h, FALSE, 404, "Session not found")

\* Line 104: res.status(400).json({ error: "Invalid or missing session ID" })
InvalidSession(h) ==
    Received("GET", h, FALSE, 400, "Invalid or missing session ID")

\* The last tick at which a request on a live session completed, its first
\* one included.
Touch(sessionId) ==
    IF SessionsHas(sessionId) THEN MapSet(lastActive, sessionId, clock)
    ELSE lastActive

\* ------------------------------------------------------ utils/fetcher.ts
\* Line 7: DEFAULT_TIMEOUT = 10000 ms, in ticks of 5 seconds.
DEFAULT_TIMEOUT == 2

\* The values an options.timeout can take; Undefined leaves the default.
TimeoutOptions == {Undefined, 1, 3}

\* Line 21: const { timeout = DEFAULT_TIMEOUT, ...fetchOptions } = options
TimeoutOf(timeout) == IF timeout = Undefined THEN DEFAULT_TIMEOUT ELSE timeout

\* JavaScript values: null, a string, the value of a JSON text.
Null == [type |-> "null"]
Str(s) == [type |-> "string", value |-> s]
Obj(s) == [type |-> "object", json |-> s]

\* A thrown value: an Error (a DOMException included) with its name and
\* message, or any other value with what String() makes of it.
ErrorValue(name, message) ==
    [isError |-> TRUE, name |-> name, message |-> message,
     string |-> name \o ": " \o message]
NonError(string) ==
    [isError |-> FALSE, name |-> "", message |-> "", string |-> string]

\* What fetch rejects with once controller.abort() has been called.
AbortError == ErrorValue("AbortError", "This operation was aborted")

\* What fetch or the reading of a body can reject with otherwise.
NetworkFaults ==
    {ErrorValue("TypeError", "fetch failed"),
     ErrorValue("Error", "DNS resolution failed"),
     ErrorValue("Error", ""),
     NonError("string error"),
     NonError("[object Object]")}

\* The upstream responses: status and statusText.
Responses ==
    {[status |-> 200, statusText |-> "OK"],
     [status |-> 403, statusText |-> "Forbidden"],
     [status |-> 404, statusText |-> "Not Found"],
     [status |-> 500, statusText |-> "Internal Server Error"]}
NoResponse == [status |-> 0, statusText |-> ""]

\* Response.ok, read at lines 47 and 74.
Ok(response) == response.status \in 200..299

\* The bodies an upstream sends.
Bodies == {"{\"a\":1}", "null", "<html>", ""}

Return(value) == [kind |-> "return", value |-> value]
Throw(value) == [kind |-> "throw", value |-> value]
Pending == [kind |-> "none"]

\* Line 54: response.json()
ResponseJson(body) ==
    CASE body = "null" -> Return(Null)
      [] body = "{\"a\":1}" -> Return(Obj(body))
      [] body = "" -> Throw(ErrorValue("SyntaxError", "Unexpected end of JSON input"))
      [] OTHER -> Throw(ErrorValue("SyntaxError", "Unexpected token"))

\* Line 81: response.text()
ResponseText(body) == Return(Str(body))

\* The type FetchResult<T>.
FetchResult(data, error) == [data |-> data, error |-> error]

\* Lines 50 and 77: `HTTP ${response.status}: ${response.statusText}`
HttpError(response) ==
    "HTTP " \o ToString(response.status) \o ": " \o response.statusText

\* Mutant of Catch: only the abort is turned into a result, any other
\* fault is thrown on to the caller.
CatchAbortOnly(error) ==
    IF error.isError /\ error.name = "AbortError"
    THEN Return(FetchResult(Null, Str("Request timed out")))
    ELSE Throw(error)

\* Lines 56-61 and 83-88: the catch clause of fetchJson and fetchText.
Catch(error) ==
    IF error.isError /\ error.name = "AbortError"
    THEN Return(FetchResult(Null, Str("Request timed out")))
    ELSE Return(FetchResult(Null, Str(IF error.isError THEN error.message
                                                      ELSE error.string)))

\* Lines 47-52 and 74-79: the answer to a response that is not ok.
NotOk(response) == Return(FetchResult(Null, Str(HttpError(response))))

\* Lines 54 and 81: what reading the body gives, a value or a thrown fault.
Parse(fn, body) ==
    IF fn = "fetchJson" THEN ResponseJson(body) ELSE ResponseText(body)

\* Lines 54-55 and 81-82 inside the try: the body is read and returned.
ReadBody(fn, body) ==
    LET read == Parse(fn, body) IN
    IF read.kind = "return" THEN Return(FetchResult(read.value, Null))
    ELSE Catch(read.value)

\* No call of fetchJson or fetchText has been made.
FxIdle ==
    [pc |-> "idle", fn |-> "none", timeout |-> 0, timer |-> FALSE,
     aborted |-> FALSE, now |-> 0, response |-> NoResponse, caught |-> {},
     body |-> {}, outcome |-> Pending]

\* The call has ended with this outcome.
Ended(call, outcome) ==
    [call EXCEPT !.pc = IF outcome.kind = "return" THEN "returned" ELSE "threw",
                 !.outcome = outcome]

\* Mutant of errorResponse: the result carries no error flag.
errorResponseUnflagged(message) ==
    [content |-> << [type |-> "text", text |-> message] >>]

\* Lines 94-99: errorResponse(message)
errorResponse(message) ==
    [content |-> << [type |-> "text", text |-> message] >>, isError |-> TRUE]

\* Lines 104-108: textResponse(text); the result has no isError property.
textResponse(text) ==
    [content |-> << [type |-> "text", text |-> text] >>]

\* The messages the response builders are called with.
Messages == {"", "Something went wrong", "Success message",
             "Line 1\nLine 2\nLine 3"}

\* No tool handler and no response builder has been called.
ToolIdle ==
    [pc |-> "idle", name |-> "none", args |-> << >>, urls |-> << >>,
     got |-> << >>, shown |-> << >>, result |-> Pending]

\* Lines 113-116 of utils/fetcher.ts: truncate(text, maxLength)
truncate(text, maxLength) ==
    IF Len(text) <= maxLength THEN text
    ELSE SubSeq(text, 1, maxLength) \o "\n\n... [truncated]"

\* tools/github.ts line 25.
GITHUB_RAW == "https://raw.githubusercontent.com"

\* tools/github.ts lines 81-82.
branches == << "main", "master", "canary" >>
filenames == << "README.md", "readme.md", "Readme.md" >>

\* The i-th pass of the nested loops of lines 84-85, counted from 1.
BranchOf(i) == branches[((i - 1) \div Len(filenames)) + 1]
FilenameOf(i) == filenames[((i - 1) % Len(filenames)) + 1]
LastCandidate == Len(branches) * Len(filenames)

\* Line 86: the URL of the i-th candidate.
ReadmeUrl(args, i) ==
    GITHUB_RAW \o "/" \o args.owner \o "/" \o args.repo \o "/"
        \o BranchOf(i) \o "/" \o FilenameOf(i)

\* The repositories the handler is called for.
Repos == {[owner |-> "facebook", repo |-> "react"],
          [owner |-> "test", repo |-> "nonexistent"]}

\* What fetchText can return for a candidate: no file, an empty file, a
\* file with text.
ReadmeResults ==
    {FetchResult(Null, Str("HTTP 404: Not Found")),
     FetchResult(Str(""), Null),
     FetchResult(Str("# My Project"), Null)}

\* Line 89: if (data), for a string or null: null and "" are falsy.
DataTruthy(data) == data # Null /\ data # Str("")

\* Lines 95-97: the message of the error result.
ReadmeFailed(args) ==
    "Failed to fetch README from " \o args.owner \o "/" \o args.repo
        \o ". The repository may not exist, be private, or have a README in a different location."

\* Math.min and Math.max on integers.
MathMin(a, b) == IF a <= b THEN a ELSE b
MathMax(a, b) == IF a >= b THEN a ELSE b

\* An optional numeric argument: the empty set when it is left out.
OptionalArgs == {{}} \cup {{n} : n \in (-MaxArg)..MaxArg}

\* The destructuring default `count = 5`, `limit = 10`.
Default(arg, default) == IF arg = {} THEN default ELSE CHOOSE n \in arg : TRUE

\* Mutant of ClampCount: the upper limit is not applied.
ClampCountNoMax(count) == MathMax(1, count)

\* tools/github.ts line 243: Math.min(Math.max(1, count), 10)
ClampCount(count) == MathMin(MathMax(1, count), 10)

\* tools/npm.ts lines 135 and 189: Math.min(Math.max(1, limit), 20)
ClampLimit(limit) == MathMin(MathMax(1, limit), 20)

\* tools/github.ts line 24 and tools/npm.ts line 20.
GITHUB_API == "https://api.github.com"
NPM_REGISTRY == "https://registry.npmjs.org"

\* encodeURIComponent on the characters the inputs hold.
EncodeChar(c) ==
    CASE c = "@" -> "%40"
      [] c = "/" -> "%2F"
      [] c = " " -> "%20"
      [] OTHER -> c
RECURSIVE encodeURIComponent(_)
encodeURIComponent(str) ==
    IF str = "" THEN ""
    ELSE EncodeChar(SubSeq(str, 1, 1))
            \o encodeURIComponent(SubSeq(str, 2, Len(str)))

\* Array.prototype.join
RECURSIVE Join(_, _)
Join(strings, separator) ==
    IF strings = << >> THEN ""
    ELSE IF Len(strings) = 1 THEN strings[1]
    ELSE strings[1] \o separator \o Join(Tail(strings), separator)

\* A JSON array as data.
Arr(items) == [type |-> "array", items |-> items]

\* `error || ...` and `!data`: null and "" are falsy, an array or an
\* object is truthy.
Falsy(value) == value = Null \/ value = Str("")

\* `${error || "received empty response"}`
ErrorText(error) ==
    IF Falsy(error) THEN "received empty response" ELSE error.value

\* utils/fetcher.ts lines 137-150: formatRelativeTime, from the age in
\* whole days that lines 138-141 compute.
formatRelativeTime(diffDays) ==
    IF diffDays = 0 THEN "today"
    ELSE IF diffDays = 1 THEN "yesterday"
    ELSE IF diffDays < 7 THEN ToString(diffDays) \o " days ago"
    ELSE IF diffDays < 30 THEN ToString(diffDays \div 7) \o " weeks ago"
    ELSE IF diffDays < 365 THEN ToString(diffDays \div 30) \o " months ago"
    ELSE ToString(diffDays \div 365) \o " years ago"

\* tools/github.ts line 244: the URL get_github_releases fetches.
ReleasesUrl(args) ==
    GITHUB_API \o "/repos/" \o args.owner \o "/" \o args.repo
        \o "/releases?per_page=" \o ToString(ClampCount(Default(args.count, 5)))

\* tools/github.ts lines 259-273: the text of one release; an absent name
\* or body is the empty string, days is the age of published_at.
ReleaseText(release) ==
    "## " \o (IF release.name = "" THEN release.tag_name ELSE release.name)
        \o (IF release.prerelease THEN " [PRE-RELEASE]" ELSE "")
        \o "\n**Tag:** " \o release.tag_name \o " | **Released:** "
        \o formatRelativeTime(release.days) \o "\n\n"
        \o (IF release.body = "" THEN "No release notes provided."
            ELSE truncate(release.body, 1000))

\* What fetchJson can return to get_github_releases.
ReleasesResults ==
    {FetchResult(Null, Str("HTTP 404: Not Found")),
     FetchResult(Null, Str("")),
     FetchResult(Null, Null),
     FetchResult(Arr(<< >>), Null),
     FetchResult(Arr(<< [tag_name |-> "v1.0.0", name |-> "Version 1.0.0",
                         days |-> 1, prerelease |-> TRUE, body |-> "Notes"],
                        [tag_name |-> "v0.9.0", name |-> "", days |-> 40,
                         prerelease |-> FALSE, body |-> ""] >>), Null)}

\* tools/github.ts lines 249-277: the result of get_github_releases.
ReleasesResult(args, fetched) ==
    IF ~Falsy(fetched.error) \/ Falsy(fetched.data)
    THEN errorResponse("Failed to fetch releases: " \o ErrorText(fetched.error))
    ELSE IF Len(fetched.data.items) = 0
    THEN textResponse("No releases found for " \o args.owner \o "/" \o args.repo
            \o ". The project may use a different release strategy.")
    ELSE textResponse("# Releases for " \o args.owner \o "/" \o args.repo
            \o "\n\n"
            \o Join([i \in 1..Len(fetched.data.items) |->
                        ReleaseText(fetched.data.items[i])], "\n\n---\n\n"))

\* tools/npm.ts line 136: the URL search_npm_packages fetches.
SearchUrl(args) ==
    NPM_REGISTRY \o "/-/v1/search?text=" \o encodeURIComponent(args.query)
        \o "&size=" \o ToString(ClampLimit(Default(args.limit, 10)))

\* tools/npm.ts lines 147-154: the text of one hit; an absent description
\* is the empty string, percent is Math.round((score.final || 0) * 100).
HitText(obj, index) ==
    ToString(index) \o ". **" \o obj.name \o "** (v" \o obj.version \o ")\n   "
        \o (IF obj.description = "" THEN "No description" ELSE obj.description)
        \o "\n   Score: " \o ToString(obj.percent)
        \o "% | https://www.npmjs.com/package/" \o obj.name

\* What fetchJson can return to search_npm_packages.
SearchResults ==
    {FetchResult(Null, Str("Request timed out")),
     FetchResult(Null, Null),
     FetchResult([type |-> "object", total |-> 0, objects |-> << >>], Null),
     FetchResult([type |-> "object", total |-> 100, objects |->
                    << [name |-> "react", version |-> "18.2.0",
                        description |-> "", percent |-> 95] >>], Null)}

\* tools/npm.ts lines 139-158: the result of search_npm_packages.
SearchResult(args, fetched) ==
    IF ~Falsy(fetched.error) \/ Falsy(fetched.data)
    THEN errorResponse("Failed to search npm: " \o ErrorText(fetched.error))
    ELSE IF Len(fetched.data.objects) = 0
    THEN textResponse("No packages found for \"" \o args.query \o "\".")
    ELSE textResponse("# npm Search Results for \"" \o args.query
            \o "\"\n\nFound " \o ToString(fetched.data.total)
            \o " packages. Showing top " \o ToString(Len(fetched.data.objects))
            \o ":\n\n"
            \o Join([i \in 1..Len(fetched.data.objects) |->
                        HitText(fetched.data.objects[i], i)], "\n\n"))

\* tools/npm.ts lines 171-173: the URL get_package_versions fetches.
PackageUrl(args) == NPM_REGISTRY \o "/" \o encodeURIComponent(args.package_name)

\* Array.prototype.sort with the comparator of line 188, newest first: an
\* entry goes before the first entry that is older (the sort is stable);
\* days is the age of the entry's date.
RECURSIVE InsertNewestFirst(_, _)
InsertNewestFirst(sorted, entry) ==
    IF sorted = << >> THEN << entry >>
    ELSE IF Head(sorted).days > entry.days THEN << entry >> \o sorted
    ELSE << Head(sorted) >> \o InsertNewestFirst(Tail(sorted), entry)
RECURSIVE SortNewestFirst(_)
SortNewestFirst(entries) ==
    IF entries = << >> THEN << >>
    ELSE InsertNewestFirst(SortNewestFirst(SubSeq(entries, 1, Len(entries) - 1)),
                           entries[Len(entries)])

\* Line 187: the entries of pkg.time but for created and modified.
IsVersion(entry) == entry.key # "created" /\ entry.key # "modified"

\* Array.prototype.slice(0, end) for end >= 0.
Slice(array, end) == SubSeq(array, 1, MathMin(end, Len(array)))

\* Lines 186-189: the versions shown.
Versions(pkg, limit) ==
    Slice(SortNewestFirst(SelectSeq(pkg.time, IsVersion)), ClampLimit(limit))

\* Lines 191-196 and 199-200: the dist-tags of a version, as " [a, b]".
TagsOf(pkg, version) ==
    LET Tagged(t) == t.version = version
        tags == SelectSeq(pkg.distTags, Tagged) IN
    IF tags = << >> THEN ""
    ELSE " [" \o Join([i \in 1..Len(tags) |-> tags[i].tag], ", ") \o "]"

\* Lines 198-201: the line of one version.
VersionText(pkg, entry) ==
    "- **" \o entry.key \o "**" \o TagsOf(pkg, entry.key) \o " - "
        \o formatRelativeTime(entry.days)

\* What fetchJson can return to get_package_versions: an error, a package
\* without time, one with three versions, one with twenty-four.
VersionsResults ==
    {FetchResult(Null, Str("HTTP 404: Not Found")),
     FetchResult([type |-> "object", hasTime |-> FALSE, time |-> << >>,
                  distTags |-> << >>], Null),
     FetchResult([type |-> "object", hasTime |-> TRUE,
                  time |-> << [key |-> "created", days |-> 400],
                              [key |-> "1.0.0", days |-> 400],
                              [key |-> "2.0.0", days |-> 3],
                              [key |-> "modified", days |-> 0],
                              [key |-> "1.1.0", days |-> 20] >>,
                  distTags |-> << [tag |-> "latest", version |-> "2.0.0"],
                                  [tag |-> "next", version |-> "2.0.0"] >>], Null),
     FetchResult([type |-> "object", hasTime |-> TRUE,
                  time |-> [i \in 1..24 |->
                              [key |-> "0.0." \o ToString(i), days |-> 30 - i]],
                  distTags |-> << >>], Null)}

\* Lines 175-204: the result of get_package_versions.
VersionsResult(args, fetched) ==
    IF ~Falsy(fetched.error) \/ Falsy(fetched.data)
    THEN errorResponse("Failed to fetch package: " \o ErrorText(fetched.error))
    ELSE IF ~fetched.data.hasTime
    THEN errorResponse("Version history not available for '"
            \o args.package_name \o "'.")
    ELSE LET versions == Versions(fetched.data, Default(args.limit, 10)) IN
         textResponse("# Version History: " \o args.package_name
            \o "\n\nShowing " \o ToString(Len(versions))
            \o " most recent versions:\n\n"
            \o Join([i \in 1..Len(versions) |->
                        VersionText(fetched.data, versions[i])], "\n"))

\* ------------------------------------------------------------------- Init
Init ==
    /\ sessions = << >>
    /\ servers = << >>
    /\ transports = << >>
    /\ timers = {}
    /\ fired = {}
    /\ clock = 0
    /\ issued = 0
    /\ lastActive = << >>
    /\ received = 0
    /\ reqs = EmptyBag
    /\ last = Received("none", Undefined, FALSE, 0, "none")
    /\ fx = FxIdle
    /\ tool = ToolIdle

\* ---------------------------------------------------------------- POST /mcp
\* Lines 56-63 up to the await: the token resolves, the stored transport is
\* handed the request.
PostReuse(h) ==
    /\ received < MaxRequests
    /\ PostLookup(h) # {}
    /\ \E session \in PostLookup(h) :
          reqs' = Suspend(Request("POST", h, "handling", 0, session.transport))
    /\ received' = received + 1
    /\ last' = Received("POST", h, TRUE, 0, "none")
    /\ UNCHANGED << sessions, servers, transports, timers, fired, clock, issued,
                    lastActive >>

\* Mutant of PostCreate: a header that names no session is an error, only a
\* request without header starts a session.
PostCreateStrict(h) ==
    /\ received < MaxRequests
    /\ PostLookup(h) = {}
    /\ received' = received + 1
    /\ IF h = Undefined
       THEN /\ servers' = Append(servers, createMcpServer)
            /\ transports' = Append(transports, NewTransport)
            /\ reqs' = Suspend(Request("POST", h, "connecting", Len(servers) + 1,
                                       Len(transports) + 1))
            /\ last' = Received("POST", h, FALSE, 0, "none")
       ELSE /\ last' = Received("POST", h, FALSE, 404, "Session not found")
            /\ UNCHANGED << servers, transports, reqs >>
    /\ UNCHANGED << sessions, timers, fired, clock, issued, lastActive >>

\* Mutant of PostCreate: the superseded handler, in which one server made
\* at start-up is connected to the transport of every new session.
PostCreateSharedServer(h) ==
    /\ received < MaxRequests
    /\ PostLookup(h) = {}
    /\ servers' = IF servers = << >> THEN << createMcpServer >> ELSE servers
    /\ transports' = Append(transports, NewTransport)
    /\ reqs' = Suspend(Request("POST", h, "connecting", 1, Len(transports) + 1))
    /\ received' = received + 1
    /\ last' = Received("POST", h, FALSE, 0, "none")
    /\ UNCHANGED << sessions, timers, fired, clock, issued, lastActive >>

\* Lines 56-75 up to the await of server.connect: no session, a server and a
\* transport are created.
PostCreate(h) ==
    /\ received < MaxRequests
    /\ PostLookup(h) = {}
    /\ servers' = Append(servers, createMcpServer)
    /\ transports' = Append(transports, NewTransport)
    /\ reqs' = Suspend(Request("POST", h, "connecting", Len(servers) + 1,
                               Len(transports) + 1))
    /\ received' = received + 1
    /\ last' = Received("POST", h, FALSE, 0, "none")
    /\ UNCHANGED << sessions, timers, fired, clock, issued, lastActive >>

\* Mutant of PostConnected: as in the superseded handler, the session is
\* put into the map, under an identifier made up front, before the request
\* is handled.
PostConnectedEager(rq) ==
    /\ rq \in InFlight
    /\ rq.pc = "connecting"
    /\ servers' = [servers EXCEPT ![rq.server].transport = rq.transport]
    /\ issued' = issued + 1
    /\ transports' = [transports EXCEPT ![rq.transport].sessionId = randomUUID]
    /\ sessions' = SessionsSet(randomUUID, rq.server, rq.transport)
    /\ lastActive' = MapSet(lastActive, randomUUID, clock)
    /\ reqs' = Resume(rq, [rq EXCEPT !.pc = "handling"])
    /\ UNCHANGED << timers, fired, clock, received, last >>

\* Line 75 resolves, line 78 calls transport.handleRequest.
PostConnected(rq) ==
    /\ rq \in InFlight
    /\ rq.pc = "connecting"
    /\ servers' = [servers EXCEPT ![rq.server].transport = rq.transport]
    /\ reqs' = Resume(rq, [rq EXCEPT !.pc = "handling"])
    /\ UNCHANGED << sessions, transports, timers, fired, clock, issued,
                    lastActive, received, last >>

\* transport.handleRequest(req, res, body) of the SDK, by its outcomes: a
\* transport without an identifier may mint one (sessionIdGenerator, line 70)
\* and answer; any transport may answer without minting (a result or a
\* rejection of its own), or fault.
HandleMint(rq) ==
    /\ rq \in InFlight
    /\ rq.pc = "handling"
    /\ transports[rq.transport].sessionId = Undefined
    /\ issued' = issued + 1
    /\ transports' = [transports EXCEPT ![rq.transport].sessionId = randomUUID]
    /\ reqs' = Resume(rq, [rq EXCEPT !.pc = "handled"])
    /\ UNCHANGED << sessions, servers, timers, fired, clock, lastActive,
                    received, last >>

HandleAnswer(rq) ==
    /\ rq \in InFlight
    /\ rq.pc = "handling"
    /\ reqs' = Resume(rq, [rq EXCEPT !.pc = "handled"])
    /\ UNCHANGED << sessions, servers, transports, timers, fired, clock, issued,
                    lastActive, received, last >>

\* handleRequest rejects: the await throws and the handler ends there.
HandleFault(rq) ==
    /\ rq \in InFlight
    /\ rq.pc = "handling"
    /\ reqs' = Finish(rq)
    /\ UNCHANGED << sessions, servers, transports, timers, fired, clock, issued,
                    lastActive, received, last >>

\* Mutant of PostReuseReturn: a request on a session puts its eviction
\* off, the timer is scheduled anew.
PostReuseReturnReset(rq) ==
    /\ rq \in InFlight
    /\ rq.pc = "handled"
    /\ rq.verb = "POST"
    /\ rq.server = 0
    /\ reqs' = Finish(rq)
    /\ lastActive' = Touch(rq.sessionId)
    /\ timers' = {IF tm.token = rq.sessionId /\ SessionsHas(rq.sessionId)
                  THEN [tm EXCEPT !.due = clock + EvictionDelay] ELSE tm :
                  tm \in timers}
    /\ UNCHANGED << sessions, servers, transports, fired, clock, issued,
                    received, last >>

\* Line 64: the reuse path returns.
PostReuseReturn(rq) ==
    /\ rq \in InFlight
    /\ rq.pc = "handled"
    /\ rq.verb = "POST"
    /\ rq.server = 0
    /\ reqs' = Finish(rq)
    /\ lastActive' = Touch(rq.sessionId)
    /\ UNCHANGED << sessions, servers, transports, timers, fired, clock, issued,
                    received, last >>

\* Mutant of NewSessionId: the identifier the client sent is used when
\* there is one.
NewSessionIdFromHeader(rq) ==
    IF rq.sessionId # Undefined THEN rq.sessionId
    ELSE transports[rq.transport].sessionId

\* Line 81: const newSessionId = transport.sessionId
NewSessionId(rq) == transports[rq.transport].sessionId

\* Lines 81-96: the session is stored under the transport's identifier and
\* its eviction is scheduled, if there is an identifier.
PostRegister(rq) ==
    /\ rq \in InFlight
    /\ rq.pc = "handled"
    /\ rq.verb = "POST"
    /\ rq.server # 0
    /\ LET newSessionId == NewSessionId(rq) IN
       IF Minted(newSessionId)
       THEN /\ sessions' = SessionsSet(newSessionId, rq.server, rq.transport)
            /\ timers' = SetTimeout(newSessionId, rq.transport)
            /\ lastActive' = MapSet(lastActive, newSessionId, clock)
       ELSE UNCHANGED << sessions, timers, lastActive >>
    /\ reqs' = Finish(rq)
    /\ UNCHANGED << servers, transports, fired, clock, issued, received, last >>

\* Mutant of EvictionTimer: the callback closes the transport it was
\* scheduled for without looking the session up.
EvictionTimerUnchecked(tm) ==
    /\ tm \in timers
    /\ tm.due <= clock
    /\ timers' = timers \ {tm}
    /\ transports' = Close(transports, tm.transport)
    /\ sessions' = SessionsDelete(tm.token)
    /\ lastActive' = MapDelete(lastActive, tm.token)
    /\ fired' = fired \cup {[token |-> tm.token, found |-> SessionsHas(tm.token),
                             idle |-> 0]}
    /\ UNCHANGED << servers, clock, issued, received, reqs, last >>

\* Lines 87-93: the eviction callback.
EvictionTimer(tm) ==
    /\ tm \in timers
    /\ tm.due <= clock
    /\ timers' = timers \ {tm}
    /\ IF SessionsHas(tm.token)
       THEN /\ transports' = Close(transports, sessions[tm.token].transport)
            /\ sessions' = SessionsDelete(tm.token)
            /\ fired' = fired \cup {[token |-> tm.token, found |-> TRUE,
                                     idle |-> clock - lastActive[tm.token]]}
            /\ lastActive' = MapDelete(lastActive, tm.token)
       ELSE /\ UNCHANGED << transports, sessions, lastActive >>
            /\ fired' = fired \cup {[token |-> tm.token, found |-> FALSE,
                                     idle |-> 0]}
    /\ UNCHANGED << servers, clock, issued, received, reqs, last >>

\* ----------------------------------------------------------------- GET /mcp
\* Lines 101-106.
GetReject(h) ==
    /\ received < MaxRequests
    /\ ~Resolves(h)
    /\ received' = received + 1
    /\ last' = InvalidSession(h)
    /\ UNCHANGED << sessions, servers, transports, timers, fired, clock, issued,
                    lastActive, reqs >>

\* Lines 101-109 up to the await.
GetStream(h) ==
    /\ received < MaxRequests
    /\ Resolves(h)
    /\ reqs' = Suspend(Request("GET", h, "handling", 0, sessions[h].transport))
    /\ received' = received + 1
    /\ last' = Received("GET", h, TRUE, 0, "none")
    /\ UNCHANGED << sessions, servers, transports, timers, fired, clock, issued,
                    lastActive >>

\* Line 110.
GetReturn(rq) ==
    /\ rq \in InFlight
    /\ rq.pc = "handled"
    /\ rq.verb = "GET"
    /\ reqs' = Finish(rq)
    /\ lastActive' = Touch(rq.sessionId)
    /\ UNCHANGED << sessions, servers, transports, timers, fired, clock, issued,
                    received, last >>

\* -------------------------------------------------------------- DELETE /mcp
\* Lines 114-122: the handler has no await, it runs in one stretch.
DeleteMcp(h) ==
    /\ received < MaxRequests
    /\ IF Resolves(h)
       THEN /\ transports' = Close(transports, sessions[h].transport)
            /\ sessions' = SessionsDelete(h)
            /\ lastActive' = MapDelete(lastActive, h)
       ELSE UNCHANGED << transports, sessions, lastActive >>
    /\ last' = Received("DELETE", h, Resolves(h), 204, "none")
    /\ received' = received + 1
    /\ UNCHANGED << servers, timers, fired, clock, issued, reqs >>

\* -------------------------------------------------------------------- time
\* Time passes; a callback that is due runs before the clock moves on.
Tick ==
    /\ clock < MaxClock
    /\ \A tm \in timers : tm.due > clock
    /\ clock' = clock + 1
    /\ UNCHANGED << sessions, servers, transports, timers, fired, issued,
                    lastActive, received, reqs, last >>

Next ==
    \/ \E h \in Headers : PostReuse(h) /\ UNCHANGED << fx, tool >>
    \/ \E h \in Headers : PostCreate(h) /\ UNCHANGED << fx, tool >>
    \/ \E rq \in InFlight : PostConnected(rq) /\ UNCHANGED << fx, tool >>
    \/ \E rq \in InFlight : HandleMint(rq) /\ UNCHANGED << fx, tool >>
    \/ \E rq \in InFlight : HandleAnswer(rq) /\ UNCHANGED << fx, tool >>
    \/ \E rq \in InFlight : HandleFault(rq) /\ UNCHANGED << fx, tool >>
    \/ \E rq \in InFlight : PostReuseReturn(rq) /\ UNCHANGED << fx, tool >>
    \/ \E rq \in InFlight : PostRegister(rq) /\ UNCHANGED << fx, tool >>
    \/ \E tm \in timers : EvictionTimer(tm) /\ UNCHANGED << fx, tool >>
    \/ \E h \in Headers : GetReject(h) /\ UNCHANGED << fx, tool >>
    \/ \E h \in Headers : GetStream(h) /\ UNCHANGED << fx, tool >>
    \/ \E rq \in InFlight : GetReturn(rq) /\ UNCHANGED << fx, tool >>
    \/ \E h \in Headers : DeleteMcp(h) /\ UNCHANGED << fx, tool >>
    \/ Tick /\ UNCHANGED << fx, tool >>

Spec == Init /\ [][Next]_vars

\* The event loop of Node.js: time passes, and a timer callback that is due
\* is run.
Fairness ==
    /\ WF_vars(Tick /\ UNCHANGED << fx, tool >>)
    /\ WF_vars(\E tm \in timers : EvictionTimer(tm) /\ UNCHANGED << fx, tool >>)

\* The steps of Next, in behaviours of at most MaxLiveRequests requests.
LiveNext == Next /\ received' <= MaxLiveRequests

LiveSpec == Init /\ [][LiveNext]_vars /\ Fairness

\* ------------------------------------------------- fetchJson and fetchText
\* Lines 44-45 (71-72) and 21-27: the call sets the abort timer and awaits
\* fetch.
CallFetch(fn, timeout) ==
    /\ fx.pc = "idle"
    /\ fx' = [FxIdle EXCEPT !.pc = "fetch", !.fn = fn,
                            !.timeout = TimeoutOf(timeout), !.timer = TRUE]
    /\ UNCHANGED serverVars

\* Line 24: the timer callback, controller.abort().
AbortTimer ==
    /\ fx.timer
    /\ fx.now >= fx.timeout
    /\ fx' = [fx EXCEPT !.timer = FALSE, !.aborted = TRUE]
    /\ UNCHANGED serverVars

\* Line 27 rejects with the AbortError of the aborted signal; line 33, then
\* the catch clause.
FetchAborted ==
    /\ fx.pc = "fetch"
    /\ fx.aborted
    /\ fx' = Ended([fx EXCEPT !.caught = {AbortError}], Catch(AbortError))
    /\ UNCHANGED serverVars

\* Line 27 rejects with a fault of the network; line 33, then the catch
\* clause.
FetchRejected(fault) ==
    /\ fx.pc = "fetch"
    /\ ~fx.aborted
    /\ fx' = Ended([fx EXCEPT !.timer = FALSE, !.caught = {fault}],
                   Catch(fault))
    /\ UNCHANGED serverVars

\* Line 27 resolves with the response; lines 31-33 clear the timer; lines
\* 47-54 (74-81) return the HTTP error or await the body.
FetchResolved(response) ==
    /\ fx.pc = "fetch"
    /\ ~fx.aborted
    /\ LET call == [fx EXCEPT !.timer = FALSE, !.response = response] IN
       fx' = IF ~Ok(response) THEN Ended(call, NotOk(response))
             ELSE [call EXCEPT !.pc = "body"]
    /\ UNCHANGED serverVars

\* Line 54 (81): the body has arrived and is parsed; line 55 (82) or the
\* catch clause.
BodyRead(body) ==
    /\ fx.pc = "body"
    /\ LET read == Parse(fx.fn, body) IN
       fx' = Ended([fx EXCEPT !.body = {body},
                              !.caught = IF read.kind = "throw"
                                         THEN {read.value} ELSE {}],
                   ReadBody(fx.fn, body))
    /\ UNCHANGED serverVars

\* Line 54 (81): the reading of the body rejects; the catch clause.
BodyFailed(fault) ==
    /\ fx.pc = "body"
    /\ fx' = Ended([fx EXCEPT !.caught = {fault}], Catch(fault))
    /\ UNCHANGED serverVars

\* Time passes while the call awaits; an abort timer that is due runs, and
\* an aborted fetch rejects, before the clock moves on.
FetchTick ==
    /\ fx.pc \in {"fetch", "body"}
    /\ fx.now < MaxNow
    /\ ~(fx.timer /\ fx.now >= fx.timeout)
    /\ ~(fx.pc = "fetch" /\ fx.aborted)
    /\ fx' = [fx EXCEPT !.now = @ + 1]
    /\ UNCHANGED serverVars

FetchNext ==
    \/ \E fn \in {"fetchJson", "fetchText"} : \E timeout \in TimeoutOptions :
          CallFetch(fn, timeout) /\ UNCHANGED tool
    \/ AbortTimer /\ UNCHANGED tool
    \/ FetchAborted /\ UNCHANGED tool
    \/ \E fault \in NetworkFaults : FetchRejected(fault) /\ UNCHANGED tool
    \/ \E response \in Responses : FetchResolved(response) /\ UNCHANGED tool
    \/ \E body \in Bodies : BodyRead(body) /\ UNCHANGED tool
    \/ \E fault \in NetworkFaults : BodyFailed(fault) /\ UNCHANGED tool
    \/ FetchTick /\ UNCHANGED tool

FetchSpec == Init /\ [][FetchNext]_vars

\* ---------------------------------------------- tool handlers and results
\* A call of errorResponse, as the handlers and the unit tests make it.
CallErrorResponse(message) ==
    /\ tool.pc = "idle"
    /\ tool' = [tool EXCEPT !.pc = "done", !.name = "errorResponse",
                            !.args = [message |-> message],
                            !.result = errorResponse(message)]
    /\ UNCHANGED << serverVars, fx >>

\* A call of textResponse.
CallTextResponse(text) ==
    /\ tool.pc = "idle"
    /\ tool' = [tool EXCEPT !.pc = "done", !.name = "textResponse",
                            !.args = [message |-> text],
                            !.result = textResponse(text)]
    /\ UNCHANGED << serverVars, fx >>

\* tools/github.ts lines 80-87: the handler of fetch_github_readme starts
\* and awaits fetchText for the first candidate.
CallReadme(args) ==
    /\ tool.pc = "idle"
    /\ tool' = [tool EXCEPT !.pc = "await", !.name = "fetch_github_readme",
                            !.args = args, !.urls = << ReadmeUrl(args, 1) >>]
    /\ UNCHANGED << serverVars, fx >>

\* Lines 87-97: fetchText has returned for the candidate; the handler
\* returns its text, goes on to the next candidate, or gives up.
ReadmeFetched(fetched) ==
    /\ tool.pc = "await"
    /\ tool.name = "fetch_github_readme"
    /\ LET i == Len(tool.urls)
           call == [tool EXCEPT !.got = Append(@, fetched)] IN
       tool' = IF DataTruthy(fetched.data)
               THEN [call EXCEPT !.pc = "done",
                        !.result = textResponse(truncate(fetched.data.value, 8000))]
               ELSE IF i = LastCandidate
               THEN [call EXCEPT !.pc = "done",
                        !.result = errorResponse(ReadmeFailed(tool.args))]
               ELSE [call EXCEPT !.urls = Append(@, ReadmeUrl(tool.args, i + 1))]
    /\ UNCHANGED << serverVars, fx >>

\* tools/github.ts lines 238-247: get_github_releases clamps the count and
\* awaits fetchJson.
CallReleases(args) ==
    /\ tool.pc = "idle"
    /\ tool' = [tool EXCEPT !.pc = "await", !.name = "get_github_releases",
                            !.args = args, !.urls = << ReleasesUrl(args) >>]
    /\ UNCHANGED << serverVars, fx >>

\* Lines 249-277: fetchJson has returned.
ReleasesFetched(fetched) ==
    /\ tool.pc = "await"
    /\ tool.name = "get_github_releases"
    /\ tool' = [tool EXCEPT !.pc = "done", !.got = << fetched >>,
                            !.result = ReleasesResult(tool.args, fetched)]
    /\ UNCHANGED << serverVars, fx >>

\* tools/npm.ts lines 133-137: search_npm_packages clamps the limit and
\* awaits fetchJson.
CallSearch(args) ==
    /\ tool.pc = "idle"
    /\ tool' = [tool EXCEPT !.pc = "await", !.name = "search_npm_packages",
                            !.args = args, !.urls = << SearchUrl(args) >>]
    /\ UNCHANGED << serverVars, fx >>

\* Lines 139-158: fetchJson has returned.
SearchFetched(fetched) ==
    /\ tool.pc = "await"
    /\ tool.name = "search_npm_packages"
    /\ tool' = [tool EXCEPT !.pc = "done", !.got = << fetched >>,
                            !.result = SearchResult(tool.args, fetched)]
    /\ UNCHANGED << serverVars, fx >>

\* tools/npm.ts lines 166-173: get_package_versions awaits fetchJson.
CallVersions(args) ==
    /\ tool.pc = "idle"
    /\ tool' = [tool EXCEPT !.pc = "await", !.name = "get_package_versions",
                            !.args = args, !.urls = << PackageUrl(args) >>]
    /\ UNCHANGED << serverVars, fx >>

\* Lines 175-204: fetchJson has returned.
VersionsFetched(fetched) ==
    /\ tool.pc = "await"
    /\ tool.name = "get_package_versions"
    /\ tool' = [tool EXCEPT
                  !.pc = "done", !.got = << fetched >>,
                  !.shown = IF Falsy(fetched.data) \/ ~Falsy(fetched.error)
                            THEN << >>
                            ELSE Versions(fetched.data, Default(tool.args.limit, 10)),
                  !.result = VersionsResult(tool.args, fetched)]
    /\ UNCHANGED << serverVars, fx >>

ToolNext ==
    \/ \E limit \in OptionalArgs : \E name \in {"test", "@scope/pkg"} :
          CallVersions([package_name |-> name, limit |-> limit])
    \/ \E fetched \in VersionsResults : VersionsFetched(fetched)
    \/ \E count \in OptionalArgs :
          CallReleases([owner |-> "test", repo |-> "repo", count |-> count])
    \/ \E fetched \in ReleasesResults : ReleasesFetched(fetched)
    \/ \E limit \in OptionalArgs : \E query \in {"test", "react dom"} :
          CallSearch([query |-> query, limit |-> limit])
    \/ \E fetched \in SearchResults : SearchFetched(fetched)
    \/ \E message \in Messages : CallErrorResponse(message)
    \/ \E text \in Messages : CallTextResponse(text)
    \/ \E args \in Repos : CallReadme(args)
    \/ \E fetched \in ReadmeResults : ReadmeFetched(fetched)

ToolSpec == Init /\ [][ToolNext]_vars

\* ===================================================================
\* Properties
\* ===================================================================
\* The step receives a request with this verb and header.
Arrives(verb, h) ==
    /\ received' = received + 1
    /\ last'.verb = verb
    /\ last'.header = h

\* The step ends the handler of the in-flight request rq by its return.
Returns(rq) ==
    /\ rq.pc = "handled"
    /\ received' = received
    /\ reqs' = Finish(rq)

\* The step ends the handler of rq by a fault of handleRequest.
Faults(rq) ==
    /\ rq.pc = "handling"
    /\ received' = received
    /\ reqs' = Finish(rq)

\* The step resumes the handler of rq, which stays in flight.
Proceeds(rq) ==
    /\ received' = received
    /\ reqs' # reqs
    /\ \E pc \in {"handling", "handled"} : reqs' = Resume(rq, [rq EXCEPT !.pc = pc])

\* The token has been a key of the sessions map at some time: every
\* insertion schedules a timer in the same stretch, and a timer, once
\* run, is recorded in fired.
WasKey(tok) ==
    \/ \E tm \in timers : tm.token = tok
    \/ \E f \in fired : f.token = tok

\* The sessions map after the step is the one before it plus one entry
\* under tok.
OneNewEntry(tok) ==
    /\ tok \notin DOMAIN sessions
    /\ DOMAIN sessions' = (DOMAIN sessions) \cup {tok}
    /\ \A k \in DOMAIN sessions : sessions'[k] = sessions[k]

NothingCreated ==
    /\ servers' = servers
    /\ Len(transports') = Len(transports)

\* -------------------------------------------------------------------- C1
\* C1 as stated: whenever the handler of a POST /mcp that carried no
\* mcp-session-id header returns, the sessions map has gained exactly one
\* entry, under a token that was never a key before.
C1_AlwaysOneNewEntry ==
    [][\A rq \in InFlight :
          (Returns(rq) /\ rq.verb = "POST" /\ rq.sessionId = Undefined)
          => \E tok \in DOMAIN sessions' : ~WasKey(tok) /\ OneNewEntry(tok)]_vars

\* C1 amended: whenever the handler of a POST /mcp that carried no header
\* returns, then if its transport minted a session identifier the sessions
\* map has gained exactly one entry, under that identifier, which was never
\* a key before; and if the transport minted none the map is unchanged.
C1_OneNewEntryIfMinted ==
    [][\A rq \in InFlight :
          (Returns(rq) /\ rq.verb = "POST" /\ rq.sessionId = Undefined)
          => LET id == transports[rq.transport].sessionId IN
             IF id # Undefined
             THEN ~WasKey(id) /\ OneNewEntry(id)
             ELSE sessions' = sessions]_vars

\* The only request so far was a POST without header, its handler has
\* returned and the map holds one session.
C1_Witness ==
    /\ received = 1
    /\ last = Received("POST", Undefined, FALSE, 0, "none")
    /\ reqs = EmptyBag
    /\ Cardinality(DOMAIN sessions) = 1

\* -------------------------------------------------------------------- C2
\* C2: a POST /mcp whose header names a token that is not a key of the
\* sessions map is treated as a POST without header: the router writes no
\* error response, it creates a fresh server and transport for the request
\* and leaves the map alone at that point; and when the handler returns the
\* map changes as it does for a header-less request (one new entry under
\* the minted identifier, or no change when none was minted), whatever the
\* header was.
C2_UnknownTokenAsNoToken ==
    [][/\ \A h \in Headers :
            (Arrives("POST", h) /\ ~SessionsHas(h))
            => /\ last'.status = 0
               /\ servers' = Append(servers, createMcpServer)
               /\ transports' = Append(transports, NewTransport)
               /\ reqs' = Suspend(Request("POST", h, "connecting",
                                          Len(servers) + 1, Len(transports) + 1))
               /\ sessions' = sessions
               /\ timers' = timers
       /\ \A rq \in InFlight :
            (Returns(rq) /\ rq.verb = "POST" /\ rq.server # 0)
            => LET id == transports[rq.transport].sessionId IN
               IF id # Undefined
               THEN OneNewEntry(id) /\ id # rq.sessionId
               ELSE sessions' = sessions]_vars

\* A POST that carried a stale or made-up token has returned and left a
\* session behind.
C2_Witness ==
    /\ last.verb = "POST"
    /\ last.header # Undefined
    /\ ~SessionsHas(last.header)
    /\ reqs = EmptyBag
    /\ received = 1
    /\ sessions # << >>

\* -------------------------------------------------------------------- C3
\* C3: a POST or GET on /mcp whose token is a key of the sessions map hands
\* the request to the transport stored under that token, creates no server
\* and no transport, and no step of its handler changes the map.
C3_KnownTokenReusesBinding ==
    [][/\ \A h \in Headers : \A verb \in {"POST", "GET"} :
            (Arrives(verb, h) /\ Resolves(h))
            => /\ reqs' = Suspend(Request(verb, h, "handling", 0,
                                          sessions[h].transport))
               /\ NothingCreated
               /\ sessions' = sessions
       /\ \A rq \in InFlight :
            (rq.server = 0 /\ (Returns(rq) \/ Faults(rq) \/ Proceeds(rq)))
            => NothingCreated /\ sessions' = sessions]_vars

\* Two sessions are live and a request on the first of them has been
\* handled by its transport.
C3_Witness ==
    /\ Cardinality(DOMAIN sessions) = 2
    /\ \E rq \in InFlight :
          /\ rq.pc = "handled"
          /\ rq.server = 0
          /\ SessionsHas(rq.sessionId)
          /\ rq.transport = sessions[rq.sessionId].transport
          /\ rq.sessionId = 1

\* -------------------------------------------------------------------- C4
\* C4: a GET /mcp whose token is absent or is not a key of the sessions map
\* is answered at once with status 400 and the body { error: "Invalid or
\* missing session ID" }; no transport is handed the request, nothing is
\* created and the map and the timers are unchanged.
C4_GetUnknownRejected ==
    [][\A h \in Headers :
          (Arrives("GET", h) /\ ~(h # Undefined /\ SessionsHas(h)))
          => /\ last'.status = 400
             /\ last'.body = "Invalid or missing session ID"
             /\ reqs' = reqs
             /\ NothingCreated
             /\ transports' = transports
             /\ sessions' = sessions
             /\ timers' = timers]_vars

\* A GET carrying the token of a session that was torn down or evicted has
\* been answered 400.
C4_Witness ==
    /\ last.verb = "GET"
    /\ last.status = 400
    /\ \E t \in 1..Len(transports) :
          transports[t].sessionId = last.header /\ transports[t].closed = 1

\* -------------------------------------------------------------------- C5
\* C5: every DELETE /mcp is answered 204 without body; when its token is
\* absent or is not a key of the sessions map no transport is closed and
\* the map is unchanged; and after any DELETE its token is not a key, so
\* that a repeated DELETE is such a no-op with the same answer.
C5_DeleteIdempotent ==
    [][\A h \in Headers :
          Arrives("DELETE", h)
          => /\ last'.status = 204
             /\ last'.body = "none"
             /\ reqs' = reqs
             /\ ~(h # Undefined /\ SessionsHas(h))
                   => (sessions' = sessions /\ transports' = transports)
             /\ h \notin DOMAIN sessions']_vars

\* A DELETE has been repeated for a token whose session the first DELETE
\* tore down.
C5_Witness ==
    /\ last.verb = "DELETE"
    /\ ~last.found
    /\ last.status = 204
    /\ \E t \in 1..Len(transports) :
          transports[t].sessionId = last.header /\ transports[t].closed = 1
    /\ \E tm \in timers : tm.token = last.header

\* -------------------------------------------------------------------- C6
\* C6: a DELETE /mcp whose token is a key of the sessions map removes
\* exactly that entry, calls close once on the transport stored under it,
\* which had not been closed before, and closes no other transport.
C6_DeleteTearsDownOne ==
    [][\A h \in Headers :
          (Arrives("DELETE", h) /\ h # Undefined /\ SessionsHas(h))
          => /\ h \notin DOMAIN sessions'
             /\ DOMAIN sessions' = (DOMAIN sessions) \ {h}
             /\ \A k \in DOMAIN sessions' : sessions'[k] = sessions[k]
             /\ Len(transports') = Len(transports)
             /\ \A t \in 1..Len(transports) :
                   /\ transports'[t].sessionId = transports[t].sessionId
                   /\ transports'[t].closed =
                         IF t = sessions[h].transport THEN 1
                         ELSE transports[t].closed]_vars

\* A DELETE has torn down one of two live sessions; the other is still
\* stored and its transport is open.
C6_Witness ==
    /\ last.verb = "DELETE"
    /\ last.found
    /\ \E t \in 1..Len(transports) :
          transports[t].sessionId = last.header /\ transports[t].closed = 1
    /\ \E k \in DOMAIN sessions : transports[sessions[k].transport].closed = 0


\* -------------------------------------------------------------------- C7
\* Transport t carries the session identifier tok.
Carries(t, tok) == t \in 1..Len(transports) /\ transports[t].sessionId = tok

\* C7: no session stays in the sessions map once more than the idle window
\* has passed since the last request on it completed; and the transport of
\* every session the eviction callback removed has had close called exactly
\* once.
C7_IdleSessionEvicted ==
    /\ \A tok \in DOMAIN sessions : clock - lastActive[tok] <= IdleTimeout
    /\ \A f \in fired :
          f.found => \A t \in 1..Len(transports) :
                        Carries(t, f.token) => transports[t].closed = 1

\* A session has been evicted after a whole window without any request,
\* and time has moved on since.
C7_Witness ==
    \E f \in fired :
        /\ f.found
        /\ f.idle = IdleTimeout
        /\ ~SessionsHas(f.token)
        /\ clock > IdleTimeout

\* -------------------------------------------------------------------- C8
\* C8 as stated: the timer measures inactivity, so whenever the eviction
\* callback removes a session, at least the idle window has passed since
\* the last request on that session completed.
C8_EvictedOnlyWhenIdle ==
    \A f \in fired : f.found => f.idle >= IdleTimeout

\* -------------------------------------------------------------------- C9
\* C9: whichever of the eviction callback and a DELETE for the same token
\* runs second finds no entry and closes nothing: close is never called
\* twice on a transport, and once the eviction callback of a session has
\* run, whether it found the entry or a DELETE had removed it, and however
\* many DELETEs followed, the session's transport has been closed exactly
\* once.
C9_CloseOnceUnderRace ==
    /\ \A t \in 1..Len(transports) : transports[t].closed <= 1
    /\ \A f \in fired : \A t \in 1..Len(transports) :
          Carries(t, f.token) => transports[t].closed = 1

\* The eviction callback of a session has run after a DELETE had torn the
\* session down.
C9_Witness ==
    \E f \in fired :
        /\ ~f.found
        /\ \E t \in 1..Len(transports) :
              Carries(t, f.token) /\ transports[t].closed = 1

\* ------------------------------------------------------------------- C10
\* C10: every key of the sessions map is the identifier its transport
\* minted; no step of a new-session POST before its handler returns
\* changes the map or the timers; and when the handler ends without an
\* identifier (handleRequest faulted, or returned without minting one) the
\* map and the timers are those from before the step.
C10_NoResidueWithoutId ==
    [][/\ \A tok \in DOMAIN sessions :
            /\ tok # Undefined
            /\ transports[sessions[tok].transport].sessionId = tok
       /\ \A h \in Headers :
            (Arrives("POST", h) /\ ~SessionsHas(h))
            => (sessions' = sessions /\ timers' = timers)
       /\ \A rq \in InFlight :
            /\ (rq.server # 0 /\ (Proceeds(rq) \/ Faults(rq)))
                  => (sessions' = sessions /\ timers' = timers)
            /\ (rq.server # 0 /\ Returns(rq)
                   /\ transports[rq.transport].sessionId = Undefined)
                  => (sessions' = sessions /\ timers' = timers)]_vars

\* Two new-session POSTs have ended, their transports minted no
\* identifier, and neither the map nor the timers hold anything.
C10_Witness ==
    /\ Len(transports) = 2
    /\ reqs = EmptyBag
    /\ \A t \in 1..Len(transports) : transports[t].sessionId = Undefined
    /\ sessions = << >>
    /\ timers = {}

\* ------------------------------------------------------------------- C11
\* The step is one of the handler of the in-flight request rq.
StepOf(rq) == Returns(rq) \/ Faults(rq) \/ Proceeds(rq)

\* C11: a session token is never supplied by the client: every key of the
\* sessions map is the identifier its own transport minted, the stretch
\* that receives a POST adds no key, and any key a step of a POST handler
\* adds is the identifier minted by that request's transport, one that
\* randomUUID() returned, and is not the value of the request's header.
C11_KeyIsMintedNeverHeader ==
    [][/\ \A tok \in DOMAIN sessions :
            transports[sessions[tok].transport].sessionId = tok
       /\ \A h \in Headers :
            Arrives("POST", h) => DOMAIN sessions' = DOMAIN sessions
       /\ \A rq \in InFlight :
            (rq.verb = "POST" /\ StepOf(rq))
            => \A k \in (DOMAIN sessions') \ (DOMAIN sessions) :
                  /\ k = transports[rq.transport].sessionId
                  /\ k \in 1..issued
                  /\ k # rq.sessionId]_vars

\* A POST that carried the token of a session torn down before has
\* returned: its session is stored under another, newly minted token.
C11_Witness ==
    /\ last.verb = "POST"
    /\ ~last.found
    /\ last.header \in 1..issued
    /\ reqs = EmptyBag
    /\ Len(transports) = 2
    /\ transports[1].sessionId = last.header
    /\ transports[1].closed = 1
    /\ DOMAIN sessions = {transports[2].sessionId}
    /\ transports[2].sessionId # last.header

\* ------------------------------------------------------------------- C12
\* C12: no two creations are attributed the same token: whenever a
\* creation (a POST that resolved no session, whatever its header)
\* completes with a minted identifier, the sessions map gains the entry of
\* that request's own server and transport under a key that is not and
\* never was a key, and every entry another creation wrote stays as it
\* was; no two eviction timers were ever scheduled for one token.
C12_CreationsGetDistinctKeys ==
    [][/\ \A rq \in InFlight :
            (rq.server # 0 /\ Returns(rq)
                /\ transports[rq.transport].sessionId # Undefined)
            => LET id == transports[rq.transport].sessionId IN
               /\ ~WasKey(id)
               /\ OneNewEntry(id)
               /\ sessions'[id] = [server |-> rq.server,
                                   transport |-> rq.transport]
       /\ \A tm1 \in timers : \A tm2 \in timers \cup
                                   {[token |-> f.token] : f \in fired} :
            tm1.token = tm2.token => tm1 = tm2]_vars

\* Two creations overlapped and both completed: the transport constructed
\* second was registered at an earlier tick than the one constructed
\* first, the later request carried an unknown token, and the map holds
\* both sessions under different keys.
C12_Witness ==
    /\ received = 2
    /\ reqs = EmptyBag
    /\ last.verb = "POST"
    /\ last.header = NonexistentSession
    /\ \E tm1 \in timers : \E tm2 \in timers :
          /\ tm1.transport < tm2.transport
          /\ tm2.due < tm1.due
          /\ tm1.token # tm2.token
          /\ {tm1.token, tm2.token} \subseteq DOMAIN sessions

\* ------------------------------------------------------------------- C13
\* The transport t has been given a session identifier and close() has not
\* been called on it.
Live(t) == transports[t].sessionId # Undefined /\ transports[t].closed = 0

\* C13: an issued session token maps to at most one live (server,
\* transport) pair: no two transports that are not closed carry the same
\* session identifier, and no two servers are connected to live transports
\* carrying the same identifier.
C13_OneLivePairPerToken ==
    /\ \A t1 \in 1..Len(transports) : \A t2 \in 1..Len(transports) :
          (Live(t1) /\ Live(t2)
              /\ transports[t1].sessionId = transports[t2].sessionId)
          => t1 = t2
    /\ \A s1 \in 1..Len(servers) : \A s2 \in 1..Len(servers) :
          (/\ servers[s1].transport # 0
           /\ servers[s2].transport # 0
           /\ Live(servers[s1].transport)
           /\ Live(servers[s2].transport)
           /\ transports[servers[s1].transport].sessionId
                = transports[servers[s2].transport].sessionId)
          => s1 = s2

\* Three tokens have been issued: the transport of one is closed, the
\* other two are live and registered.
C13_Witness ==
    /\ Len(transports) = 3
    /\ transports[1].sessionId # Undefined
    /\ transports[1].closed = 1
    /\ Live(2)
    /\ Live(3)
    /\ DOMAIN sessions = {transports[2].sessionId, transports[3].sessionId}
    /\ Cardinality(DOMAIN sessions) = 2

\* ------------------------------------------------------------------- C14
\* C14: a transport is never shared across two session tokens: no
\* transport and no server is stored under two different keys of the
\* sessions map, the server of every entry is connected to the transport of
\* that entry, no two servers are connected to one transport, and a server,
\* once connected, stays connected to the same transport.
C14_TransportNeverShared ==
    [][/\ \A k1 \in DOMAIN sessions : \A k2 \in DOMAIN sessions :
            (\/ sessions[k1].transport = sessions[k2].transport
             \/ sessions[k1].server = sessions[k2].server)
            => k1 = k2
       /\ \A k \in DOMAIN sessions :
            servers[sessions[k].server].transport = sessions[k].transport
       /\ \A s1 \in 1..Len(servers) : \A s2 \in 1..Len(servers) :
            (servers[s1].transport # 0
                /\ servers[s1].transport = servers[s2].transport)
            => s1 = s2
       /\ \A s \in 1..Len(servers) :
            servers[s].transport # 0
            => servers'[s].transport = servers[s].transport]_vars

\* Two sessions are in the map, each with a server and a transport of its
\* own, and each server is connected to the transport stored beside it.
C14_Witness ==
    /\ Cardinality(DOMAIN sessions) = 2
    /\ reqs = EmptyBag
    /\ \A k \in DOMAIN sessions :
          /\ servers[sessions[k].server].transport = sessions[k].transport
          /\ transports[sessions[k].transport].closed = 0
    /\ \E k1 \in DOMAIN sessions : \E k2 \in DOMAIN sessions :
          /\ sessions[k1].server # sessions[k2].server
          /\ sessions[k1].transport # sessions[k2].transport

\* ------------------------------------------------------------------- C15
\* The number of registrations of the tool called name on the server.
Registrations(server, name) ==
    Cardinality({i \in 1..Len(server.registeredTools) :
                    server.registeredTools[i] = name})

\* The server createMcpServer returns has every tool of allTools
\* registered exactly once, and nothing else.
CreatedFullyConfigured ==
    /\ Len(createMcpServer.registeredTools) = Len(allTools)
    /\ \A i \in 1..Len(allTools) :
          Registrations(createMcpServer, allTools[i]) = 1

\* The server has the registrations createMcpServer made, no fewer and no
\* more.
FullyConfigured(server) ==
    server.registeredTools = createMcpServer.registeredTools

\* C15: servers are never partially configured: the server createMcpServer
\* returns has every tool of allTools registered exactly once, and so has
\* every server that exists, in particular every server that is connected
\* to a transport and every server of a request that is being handled.
C15_NeverPartiallyConfigured ==
    /\ CreatedFullyConfigured
    /\ \A s \in 1..Len(servers) : FullyConfigured(servers[s])
    /\ \A rq \in InFlight :
          (rq.server # 0 /\ rq.pc \in {"handling", "handled"})
          => /\ servers[rq.server].transport = rq.transport
             /\ FullyConfigured(servers[rq.server])

\* A created server is connected and its transport has handled the
\* request; ten tools are registered on it.
C15_Witness ==
    \E rq \in InFlight :
        /\ rq.server # 0
        /\ rq.pc = "handled"
        /\ servers[rq.server].transport = rq.transport
        /\ Len(servers[rq.server].registeredTools) = 10

\* ------------------------------------------------------------------- C16
\* The step is a run of an eviction callback.
Evicts == fired' # fired

\* C16 as stated: an eviction leaves the transport of every request that
\* is in flight on a session as it was: close() is not called on it, so the
\* suspended handler can complete with the transport it obtained.
C16_EvictionSparesInFlight ==
    [][Evicts
       => \A rq \in InFlight :
             transports'[rq.transport].closed = transports[rq.transport].closed]_vars

\* ------------------------------------------------------------------- C17
\* C17 as stated: the step in which handleRequest faults, on the reuse
\* path, the create path or the GET path, calls close() on the transport of
\* the request, and leaves the entry of every other session in the map as
\* it was.
C17_FaultClosesTransport ==
    [][\A rq \in InFlight :
          Faults(rq)
          => /\ transports'[rq.transport].closed
                   = transports[rq.transport].closed + 1
             /\ \A k \in DOMAIN sessions :
                   sessions[k].transport # rq.transport
                   => (k \in DOMAIN sessions' /\ sessions'[k] = sessions[k])]_vars

\* ------------------------------------------------------------------- C18
\* The step ends the handler of the in-flight request rq.
Ends(rq) == received' = received /\ reqs' = Finish(rq)

\* C18 as stated, in the form a finite run decides: the handler of a
\* request that resolved a session never ends before the transport has
\* written the response; and the only request the router answers with an
\* error of its own, without handing it to a transport, is a GET whose
\* session does not resolve.
C18_ResolvedRequestAnswered ==
    [][/\ \A rq \in InFlight :
            (rq.server = 0 /\ Ends(rq)) => rq.pc = "handled"
       /\ \A verb \in {"POST", "GET", "DELETE"} : \A h \in Headers :
            (Arrives(verb, h) /\ last'.status >= 400)
            => (verb = "GET" /\ ~Resolves(h) /\ reqs' = reqs)
       /\ \A h \in Headers :
            (Arrives("POST", h) \/ (Arrives("GET", h) /\ Resolves(h)))
            => (reqs' # reqs /\ last'.status = 0)]_vars

\* ------------------------------------------------------------------- C19
\* No two positions of the sequence of names hold the same name.
Unique(names) ==
    \A i \in 1..Len(names) : \A j \in 1..Len(names) :
        names[i] = names[j] => i = j

\* No two tools of the combined list share a name, and the list has every
\* tool of the three adapters.
allToolsUnique ==
    /\ Unique(allTools)
    /\ Len(allTools) = Len(githubTools) + Len(npmTools) + Len(docsTools)

\* C19: tool names are unique across allTools, the GitHub, npm and docs
\* tools together, so that on every server no name is registered twice.
C19_ToolNamesUnique ==
    /\ allToolsUnique
    /\ \A s \in 1..Len(servers) :
          \/ servers[s].registeredTools = allTools
          \/ Unique(servers[s].registeredTools)

\* A session is in the map whose server holds the ten tools under ten
\* different names.
C19_Witness ==
    \E k \in DOMAIN sessions :
        LET r == servers[sessions[k].server].registeredTools IN
        /\ Len(r) = 10
        /\ Cardinality({r[i] : i \in 1..Len(r)}) = 10

\* ------------------------------------------------------------------- C20
\* The error message the catch clause is to give for a thrown value.
MessageOf(fault) ==
    IF fault.isError /\ fault.name = "AbortError" THEN "Request timed out"
    ELSE IF fault.isError THEN fault.message
    ELSE fault.string

\* C20: fetchJson and fetchText never throw. A call that has ended has
\* returned a result of exactly the fields data and error: for a response
\* that is not ok, data null and the error "HTTP <status>: <statusText>";
\* for a fault of the network or of the reading or parsing of the body,
\* data null and the fault's message; for an abort by the timer, data null
\* and "Request timed out"; and for a success, the body read with error
\* null. The error is non-null exactly when one of the failures happened.
C20_FetchNeverThrows ==
    /\ fx.pc # "threw"
    /\ fx.outcome.kind # "throw"
    /\ fx.pc = "returned"
       => LET result == fx.outcome.value IN
          /\ fx.outcome.kind = "return"
          /\ DOMAIN result = {"data", "error"}
          /\ result.error # Null => result.data = Null
          /\ (fx.response # NoResponse /\ ~Ok(fx.response))
             => result.error = Str("HTTP " \o ToString(fx.response.status)
                                      \o ": " \o fx.response.statusText)
          /\ fx.response.status = 404
             => result = [data |-> Null, error |-> Str("HTTP 404: Not Found")]
          /\ \A fault \in fx.caught :
                result = [data |-> Null, error |-> Str(MessageOf(fault))]
          /\ fx.aborted
             => result = [data |-> Null, error |-> Str("Request timed out")]
          /\ (Ok(fx.response) /\ fx.caught = {})
             => /\ result.error = Null
                /\ fx.body # {}
                /\ fx.fn = "fetchText"
                   => \A body \in fx.body : result.data = Str(body)
          /\ result.error = Null <=> (Ok(fx.response) /\ fx.caught = {})

\* A call of fetchJson was aborted by its timer and has returned the
\* result of a timeout.
C20_Witness ==
    /\ fx.pc = "returned"
    /\ fx.fn = "fetchJson"
    /\ fx.aborted
    /\ fx.now >= fx.timeout
    /\ fx.outcome = Return([data |-> Null, error |-> Str("Request timed out")])

\* ------------------------------------------------------------------- C21
\* C21 as stated: a call of fetchJson or fetchText is never still waiting
\* for its upstream, headers or body, once its timeout has expired: at the
\* timeout it has been aborted and has returned "Request timed out".
C21_FetchBoundedByTimeout ==
    /\ fx.pc \in {"fetch", "body"} => fx.now <= fx.timeout
    /\ (fx.pc = "returned" /\ fx.aborted)
       => fx.outcome = Return(FetchResult(Null, Str("Request timed out")))
    /\ fx.pc # "threw"

\* ------------------------------------------------------------------- C22
\* The error flag of a ToolResult: present and true.
IsError(result) == "isError" \in DOMAIN result /\ result.isError = TRUE

\* The result holds exactly one segment, of type text, with this text.
OneTextSegment(result, text) ==
    /\ "content" \in DOMAIN result
    /\ Len(result.content) = 1
    /\ result.content[1] = [type |-> "text", text |-> text]

\* C22: the result of errorResponse and of textResponse holds exactly one
\* text segment with the message it was given, unchanged, the empty
\* message included; the result of errorResponse has the error flag true
\* and nothing else, that of textResponse has no error flag at all; and
\* whatever built a finished result, it is an error exactly when the flag
\* is there.
C22_OneSegmentAndFlag ==
    tool.pc = "done"
    => /\ tool.name = "errorResponse"
          => /\ OneTextSegment(tool.result, tool.args.message)
             /\ DOMAIN tool.result = {"content", "isError"}
             /\ tool.result.isError = TRUE
       /\ tool.name = "textResponse"
          => /\ OneTextSegment(tool.result, tool.args.message)
             /\ DOMAIN tool.result = {"content"}
       /\ Len(tool.result.content) = 1
       /\ tool.result.content[1].type = "text"
       /\ IsError(tool.result) <=> "isError" \in DOMAIN tool.result
       /\ tool.name \in {"errorResponse", "textResponse"}
          => (IsError(tool.result) <=> tool.name = "errorResponse")

\* errorResponse has been called with the empty message: one empty text
\* segment, flagged as an error.
C22_Witness ==
    /\ tool.pc = "done"
    /\ tool.name = "errorResponse"
    /\ tool.args.message = ""
    /\ tool.result = [content |-> << [type |-> "text", text |-> ""] >>,
                      isError |-> TRUE]

\* ------------------------------------------------------------------- C23
\* C23: on the create path the steps come in one order. While the request
\* awaits server.connect the server is not connected and the transport has
\* no identifier; while it awaits handleRequest the server is connected;
\* as long as the handler has not ended, neither a map entry nor a timer
\* exists for its transport. An entry is inserted only by the step that
\* ends a create-path handler whose request has been handled, under the
\* identifier its transport minted, and the same step schedules the timer;
\* a timer is only ever scheduled for a token inserted by that step.
C23_CreatePathOrder ==
    [][/\ \A rq \in InFlight :
            rq.server # 0
            => /\ rq.pc = "connecting"
                  => /\ servers[rq.server].transport = 0
                     /\ transports[rq.transport].sessionId = Undefined
               /\ rq.pc \in {"handling", "handled"}
                  => servers[rq.server].transport = rq.transport
               /\ \A k \in DOMAIN sessions :
                     sessions[k].transport # rq.transport
               /\ \A tm \in timers : tm.transport # rq.transport
       /\ (DOMAIN sessions') \ (DOMAIN sessions) # {}
          => \E rq \in InFlight :
                /\ rq.server # 0
                /\ rq.pc = "handled"
                /\ Returns(rq)
                /\ (DOMAIN sessions') \ (DOMAIN sessions)
                      = {transports[rq.transport].sessionId}
                /\ \E tm \in timers' \ timers :
                      /\ tm.token = transports[rq.transport].sessionId
                      /\ tm.transport = rq.transport
       /\ \A tm \in timers' \ timers :
            /\ tm.token \notin DOMAIN sessions
            /\ tm.token \in DOMAIN sessions'
            /\ sessions'[tm.token].transport = tm.transport]_vars

\* A creation that began at tick 0 has ended at tick 1: the server is
\* connected, the entry is in the map and its timer is pending, due one
\* eviction delay after the insertion.
C23_Witness ==
    /\ received = 1
    /\ reqs = EmptyBag
    /\ clock = 1
    /\ \E tm \in timers :
          /\ tm.due = clock + EvictionDelay
          /\ tm.token \in DOMAIN sessions
          /\ sessions[tm.token].transport = tm.transport
          /\ servers[sessions[tm.token].server].transport = tm.transport
          /\ transports[tm.transport].sessionId = tm.token

\* ------------------------------------------------------------------- C24
\* The nine candidates in the order of the claim: branch main, master,
\* canary and, within each branch, README.md, readme.md, Readme.md.
CandidatePaths ==
    << "main/README.md", "main/readme.md", "main/Readme.md",
       "master/README.md", "master/readme.md", "master/Readme.md",
       "canary/README.md", "canary/readme.md", "canary/Readme.md" >>

\* The fetches made so far are those of the first candidates, in order.
FetchedInOrder ==
    /\ Len(tool.urls) <= 9
    /\ \A i \in 1..Len(tool.urls) :
          tool.urls[i] = "https://raw.githubusercontent.com/" \o tool.args.owner
                            \o "/" \o tool.args.repo \o "/" \o CandidatePaths[i]

\* C24 as stated: fetch_github_readme fetches the candidates in the fixed
\* order, at most nine of them; it goes on to a further candidate only
\* when every fetch so far has yielded no data; its result is a success
\* carrying the data of the last fetch when that fetch yielded data, and an
\* error exactly when all nine fetches have yielded no data.
C24_FirstCandidateWithData ==
    tool.name = "fetch_github_readme"
    => /\ FetchedInOrder
       /\ Len(tool.got) <= Len(tool.urls)
       /\ \A i \in 1..Len(tool.got) :
             i < Len(tool.urls) => tool.got[i].data = Null
       /\ tool.pc = "done"
          => /\ Len(tool.got) = Len(tool.urls)
             /\ IsError(tool.result)
                <=> (/\ Len(tool.got) = 9
                     /\ \A i \in 1..9 : tool.got[i].data = Null)
             /\ ~IsError(tool.result)
                => /\ tool.got[Len(tool.got)].data # Null
                   /\ OneTextSegment(tool.result,
                                     tool.got[Len(tool.got)].data.value)

\* ------------------------------------------------------------------- C25
\* The value the claim gives for an optional integer argument: the default
\* when it is left out, then raised to 1 and lowered to max.
Clamped(arg, default, max) ==
    LET n == IF arg = {} THEN default ELSE CHOOSE m \in arg : TRUE IN
    IF n < 1 THEN 1 ELSE IF n > max THEN max ELSE n

\* The number of entries of pkg.time that are versions.
VersionCount(pkg) ==
    Cardinality({i \in 1..Len(pkg.time) :
                    pkg.time[i].key \notin {"created", "modified"}})

\* C25: for every integer count, and for none, get_github_releases fetches
\* the URL with per_page = min(max(1, count), 10), default 5; for every
\* integer limit, and for none, search_npm_packages fetches the URL with
\* size = min(max(1, limit), 20), default 10, and get_package_versions
\* shows min(max(1, limit), 20) versions, default 10, or all the package
\* has when it has fewer; each value is within its range.
C25_CountAndLimitClamped ==
    /\ tool.name = "get_github_releases"
       => /\ Clamped(tool.args.count, 5, 10) \in 1..10
          /\ tool.urls = << "https://api.github.com/repos/" \o tool.args.owner
                              \o "/" \o tool.args.repo \o "/releases?per_page="
                              \o ToString(Clamped(tool.args.count, 5, 10)) >>
    /\ tool.name = "search_npm_packages"
       => /\ Clamped(tool.args.limit, 10, 20) \in 1..20
          /\ \E text \in {"test", "react%20dom"} :
                tool.urls = << "https://registry.npmjs.org/-/v1/search?text="
                                  \o text \o "&size="
                                  \o ToString(Clamped(tool.args.limit, 10, 20)) >>
    /\ (tool.name = "get_package_versions" /\ tool.pc = "done")
       => /\ Len(tool.shown) <= Clamped(tool.args.limit, 10, 20)
          /\ Len(tool.shown) <= 20
          /\ ~IsError(tool.result)
             => /\ Len(tool.shown)
                     = MathMin(Clamped(tool.args.limit, 10, 20),
                               VersionCount(tool.got[1].data))
                /\ LET text == tool.result.content[1].text
                       head == "# Version History: " \o tool.args.package_name
                                  \o "\n\nShowing "
                                  \o ToString(Len(tool.shown)) \o " " IN
                   SubSeq(text, 1, Len(head)) = head

\* get_github_releases was called with count 22 and has fetched its URL
\* with per_page=10.
C25_Witness ==
    /\ tool.name = "get_github_releases"
    /\ tool.args.count = {22}
    /\ tool.pc = "done"
    /\ tool.urls = << "https://api.github.com/repos/test/repo/releases?per_page=10" >>

\* ------------------------------------------------------------------- C26
\* The eviction timer of the token is pending and due within the time the
\* model covers.
TimerWithinClock(tok) == \E tm \in timers : tm.token = tok /\ tm.due <= MaxClock

C27_NoClosedTransportInMap ==
    [][/\ \A k \in DOMAIN sessions :
            transports[sessions[k].transport].closed = 0
       /\ \A t \in 1..Len(transports) :
            transports'[t].closed # transports[t].closed
            => /\ \E k \in DOMAIN sessions : sessions[k].transport = t
               /\ \A k \in DOMAIN sessions' : sessions'[k].transport # t]_vars

\* A DELETE has torn one session down while another stays in the map: the
\* first transport is closed and stored nowhere, the second is stored and
\* open.
C27_Witness ==
    /\ last.verb = "DELETE"
    /\ last.found
    /\ Len(transports) = 2
    /\ transports[1].closed = 1
    /\ transports[2].closed = 0
    /\ \E k \in DOMAIN sessions : sessions[k].transport = 2
    /\ \A k \in DOMAIN sessions : sessions[k].transport # 1

\* ------------------------------------------------------------------- C28
\* The token was a key of the sessions map and DELETE or the eviction
\* callback has removed it.
Removed(tok) == WasKey(tok) /\ tok \notin DOMAIN sessions

\* C28: a token that DELETE or eviction has removed from the sessions map
\* never resolves again: no step makes it a key again; a POST /mcp that
\* carries it takes the create path, and when that handler returns, the key
\* it adds, if any, is another token that was never a key before; and a
\* GET /mcp that carries it is answered 400 and handed to no transport.
C28_RemovedTokenStaysRemoved ==
    [][\A tok \in 1..issued :
          Removed(tok)
          => /\ tok \notin DOMAIN sessions'
             /\ Arrives("POST", tok)
                   => /\ ~last'.found
                      /\ Len(servers') = Len(servers) + 1
                      /\ Len(transports') = Len(transports) + 1
             /\ \A rq \in InFlight :
                   (rq.verb = "POST" /\ rq.sessionId = tok /\ Returns(rq))
                   => \A k \in (DOMAIN sessions') \ (DOMAIN sessions) :
                         k # tok /\ ~WasKey(k)
             /\ Arrives("GET", tok)
                   => /\ last'.status = 400
                      /\ reqs' = reqs]_vars

\* The first session was evicted; a POST carrying its token then created a
\* session that is stored under another token, and a GET carrying the
\* evicted token has just been answered 400.
C28_Witness ==
    /\ last.verb = "GET"
    /\ last.status = 400
    /\ \E f \in fired : f.found /\ f.token = last.header
    /\ Len(transports) = 2
    /\ transports[1].sessionId = last.header
    /\ transports[1].closed = 1
    /\ DOMAIN sessions = {transports[2].sessionId}
    /\ transports[2].sessionId # last.header
    /\ reqs = EmptyBag

\* ------------------------------------------------------------------- C29
\* C29: the eviction callback scheduled for a session closes and removes
\* that session only. Whenever the sessions map holds an entry under the
\* token of a pending timer, the entry is the server and transport the
\* timer was scheduled for; and the step in which a timer runs closes no
\* transport but the one it was scheduled for, closes that one only when
\* it found the entry, and removes no key but its own token.
C29_TimerEvictsOwnSessionOnly ==
    [][\A tm \in timers :
          /\ SessionsHas(tm.token)
                => /\ sessions[tm.token].transport = tm.transport
                   /\ servers[sessions[tm.token].server].transport = tm.transport
          /\ (tm \notin timers')
                => /\ DOMAIN sessions' = (DOMAIN sessions) \ {tm.token}
                   /\ \A t \in 1..Len(transports) :
                         transports'[t].closed # transports[t].closed
                         => /\ t = tm.transport
                            /\ SessionsHas(tm.token)
                            /\ transports[t].closed = 0]_vars

\* The timer of a session that DELETE had torn down has run and found
\* nothing, while a session created after the DELETE is still stored with
\* its transport open.
C29_Witness ==
    /\ Len(transports) = 2
    /\ transports[1].closed = 1
    /\ transports[2].closed = 0
    /\ \E f \in fired : ~f.found /\ f.token = transports[1].sessionId
    /\ fired \subseteq {f \in fired : ~f.found}
    /\ DOMAIN sessions = {transports[2].sessionId}
    /\ sessions[transports[2].sessionId].transport = 2
    /\ \E tm \in timers : tm.transport = 2

\* ------------------------------------------------------------------- C30
\* C30 as stated: the create path leaks nothing. Every server and
\* transport created by a new-session POST whose handler has ended is
\* either stored in the sessions map or has had its transport closed,
\* also when no session identifier was minted and when handleRequest
\* faulted.
C30_CreatePathLeaksNothing ==
    /\ \A t \in 1..Len(transports) :
          \/ \E rq \in InFlight : rq.server # 0 /\ rq.transport = t
          \/ \E k \in DOMAIN sessions : sessions[k].transport = t
          \/ transports[t].closed > 0
    /\ \A s \in 1..Len(servers) :
          \/ \E rq \in InFlight : rq.server = s
          \/ \E k \in DOMAIN sessions : sessions[k].server = s
          \/ servers[s].transport # 0 /\ transports[servers[s].transport].closed > 0

====
